---------------------------- MODULE Spec2Model ----------------------------
(***************************************************************************)
(* A model of domain-core's RelativeDname (bits/name/relative.rs): the     *)
(* validating parse from octets, label-boundary addressing, the slicing    *)
(* and splitting methods, and composition.                                 *)
(*                                                                         *)
(* Octets are naturals in 0..255, an octet buffer is a sequence of them.   *)
(* A name value is its octet sequence.                                     *)
(***************************************************************************)
EXTENDS Naturals, Sequences, FiniteSets

VARIABLES
    pc,      \* "start" | "ready" | "moved" | "failed" | "panicked" | "done"
    input,   \* the buffer last handed to from_octets
    res,     \* outcome of from_octets: "none", "Ok" or the error's name
    self,    \* the octets of the name the caller holds (the receiver)
    rets,    \* the names returned by the last call, in order
    out,     \* the output buffer compose() writes to
    last,    \* the last call: its name, arguments, receiver before, result
    heap     \* the shared buffer behind the name and the handles viewing it

vars == <<pc, input, res, self, rets, out, last, heap>>

-----------------------------------------------------------------------------
(* Bounds of the model.                                                    *)

\* Longest tail of octets enumerated for the parse inputs.
MaxTail == 5
\* Longest short buffer enumerated for the slicing inputs.
MaxSliceTail == 5
\* Longest tail appended to the long padding for the slicing inputs.
MaxLongTail == 2
\* Longest suffix argument (in octets) enumerated for strip_suffix.
MaxBase == 3
\* Longest content already in the output buffer before compose().
MaxOut == 1
\* Longest buffer (in octets) enumerated for the names that are compared.
MaxCmpTail == 4
\* Longest shared buffer (in octets), and the most handles on it.
MaxShareLen == 4
MaxHandles == 2

-----------------------------------------------------------------------------
(* Program constants.                                                      *)

\* from_octets: `if octets.len() > 254`.
MaxNameLen == 254
\* Label::split_from: the largest length octet of a normal label (0x3F).
MaxLabelLen == 63
\* Label::split_from: length octets from 0xC0 on are compression pointers.
PointerMin == 192

-----------------------------------------------------------------------------
(* Small helpers on sequences.                                             *)

\* All sequences over alphabet S of length at most n.
Tails(S, n) == UNION {[1..k -> S] : k \in 0..n}

\* n copies of octet x.
Rep(x, n) == [i \in 1..n |-> x]

\* s[from..] as Rust writes it (0-based, from <= Len(s)).
SliceFrom(s, from) == SubSeq(s, from + 1, Len(s))

\* s[..to] as Rust writes it (0-based, to <= Len(s)).
SliceTo(s, to) == SubSeq(s, 1, to)

\* s[from..to] as Rust writes it (0-based, from <= to <= Len(s)).
Slice(s, from, to) == SubSeq(s, from + 1, to)

-----------------------------------------------------------------------------
(* Label::split_from (bits/name/label.rs), as section 4.1 of the           *)
(* specification describes it: reads one length octet and classifies it.   *)

SplitOk(label, tail) == [ok |-> TRUE, err |-> "none", label |-> label, tail |-> tail]
SplitErr(e) == [ok |-> FALSE, err |-> e, label |-> <<>>, tail |-> <<>>]

Label_split_from(slice) ==
    IF Len(slice) = 0 THEN SplitErr("ShortBuf")
    ELSE LET head == slice[1] IN
         IF head >= PointerMin THEN SplitErr("Pointer")
         ELSE IF head > MaxLabelLen THEN SplitErr("BadType")
         ELSE IF Len(slice) < 1 + head THEN SplitErr("ShortBuf")
         ELSE SplitOk(Slice(slice, 1, 1 + head), SliceFrom(slice, 1 + head))

\* Label::is_root: the label has no payload.
Label_is_root(label) == Len(label) = 0

\* Label::len: the number of payload octets.
Label_len(label) == Len(label)

-----------------------------------------------------------------------------
(* RelativeDnameError and the conversion from SplitLabelError.             *)

\* The conversion with the pointer arm mapped to the label-type error.
From_SplitLabelError_pointer_as_bad_label(err) ==
    CASE err = "Pointer"  -> "BadLabel"
      [] err = "BadType"  -> "BadLabel"
      [] err = "ShortBuf" -> "ShortData"

From_SplitLabelError(err) ==
    CASE err = "Pointer"  -> "CompressedName"
      [] err = "BadType"  -> "BadLabel"
      [] err = "ShortBuf" -> "ShortData"

-----------------------------------------------------------------------------
(* RelativeDname::from_octets.                                             *)

\* The while loop over tmp: "Ok" or the name of the error returned.
RECURSIVE from_octets_scan(_)
from_octets_scan(tmp) ==
    IF Len(tmp) = 0 THEN "Ok"
    ELSE LET r == Label_split_from(tmp) IN
         IF ~r.ok THEN From_SplitLabelError(r.err)
         ELSE IF Label_is_root(r.label) THEN "AbsoluteName"
         ELSE from_octets_scan(r.tail)

\* from_octets with the limit of an absolute name, 255.
from_octets_limit_255(octets) ==
    IF Len(octets) > MaxNameLen + 1 THEN "LongName"
    ELSE from_octets_scan(octets)

\* from_octets with the length checked after the labels were scanned.
from_octets_length_last(octets) ==
    LET r == from_octets_scan(octets) IN
    IF r # "Ok" THEN r
    ELSE IF Len(octets) > MaxNameLen THEN "LongName"
    ELSE "Ok"

from_octets(octets) ==
    IF Len(octets) > MaxNameLen THEN "LongName"
    ELSE from_octets_scan(octets)

\* RelativeDname::empty and RelativeDname::wildcard.
empty == <<>>
wildcard == <<1, 42>>


-----------------------------------------------------------------------------
(* DnameIter: the labels of a name, front to back.                         *)

\* Repeated DnameIter::next until it returns None (a split error ends it).
RECURSIVE iter(_)
iter(slice) ==
    LET r == Label_split_from(slice) IN
    IF ~r.ok THEN <<>> ELSE <<r.label>> \o iter(r.tail)

\* RelativeDname::label_count.
label_count(o) == Len(iter(o))

\* RelativeDname::is_empty (through Deref to the octets).
is_empty(o) == Len(o) = 0

\* usize subtraction: below zero it overflows (a panic in a build with
\* overflow checks, a wrapped value otherwise).
usize_sub(a, b) ==
    IF a < b THEN [underflow |-> TRUE, n |-> 0]
    ELSE [underflow |-> FALSE, n |-> a - b]

\* ndots without the test for the empty name.
ndots_unguarded(o) == usize_sub(label_count(o), 1)

\* RelativeDname::ndots.
ndots(o) ==
    IF is_empty(o) THEN [underflow |-> FALSE, n |-> 0]
    ELSE usize_sub(label_count(o), 1)

-----------------------------------------------------------------------------
(* Label comparison and ToLabelIter::ends_with (bits/name/label.rs and     *)
(* bits/name/traits.rs), as sections 4.1 and 4.5 describe them.            *)

\* ASCII lower-casing of one octet: A-Z (65..90) become a-z.
to_ascii_lowercase(c) == IF c >= 65 /\ c <= 90 THEN c + 32 ELSE c

\* Label equality: same length, same octets after case folding.
Label_eq(x, y) ==
    /\ Len(x) = Len(y)
    /\ \A i \in 1..Len(x) : to_ascii_lowercase(x[i]) = to_ascii_lowercase(y[i])

\* ends_with: base's labels are the last labels of o's, compared pairwise
\* from the back.
ends_with(o, base) ==
    LET sl == iter(o)
        bl == iter(base)
    IN  /\ Len(bl) <= Len(sl)
        /\ \A k \in 1..Len(bl) : Label_eq(sl[Len(sl) - Len(bl) + k], bl[k])

-----------------------------------------------------------------------------
(* Equality, ordering and hashing of names. Label's Ord and Hash and the   *)
(* provided methods name_eq, name_cmp and starts_with are in label.rs and  *)
(* traits.rs and follow sections 4.1 and 4.5; the impls for RelativeDname  *)
(* call them.                                                              *)

\* Label ordering: the case-folded octets are compared one by one from the
\* front; a label sorts before every label it is a proper prefix of.
RECURSIVE Label_cmp_from(_, _, _)
Label_cmp_from(x, y, i) ==
    IF i > Len(x) /\ i > Len(y) THEN "Equal"
    ELSE IF i > Len(x) THEN "Less"
    ELSE IF i > Len(y) THEN "Greater"
    ELSE LET a == to_ascii_lowercase(x[i])
             b == to_ascii_lowercase(y[i])
         IN  IF a < b THEN "Less"
             ELSE IF a > b THEN "Greater"
             ELSE Label_cmp_from(x, y, i + 1)

Label_cmp(x, y) == Label_cmp_from(x, y, 1)

\* Label hashing: what is fed to the hasher after `state`, the length and
\* the case-folded octets.
Label_hash(x, state) ==
    state \o <<Len(x)>> \o [i \in 1..Len(x) |-> to_ascii_lowercase(x[i])]

\* The labels of a name given by its parts: <<o>> is a flat name, <<l, r>>
\* a chain, whose labels are those of l and then those of r.
RECURSIVE iter_labels(_)
iter_labels(parts) ==
    IF parts = <<>> THEN <<>>
    ELSE iter(Head(parts)) \o iter_labels(Tail(parts))

\* name_eq: as many labels, and equal label by label.
name_eq(sl, ol) ==
    /\ Len(sl) = Len(ol)
    /\ \A k \in 1..Len(sl) : Label_eq(sl[k], ol[k])

\* name_cmp: the labels are compared from the back; the first pair that
\* differs decides, and a name that runs out of labels first is less.
RECURSIVE name_cmp(_, _)
name_cmp(sl, ol) ==
    IF sl = <<>> /\ ol = <<>> THEN "Equal"
    ELSE IF sl = <<>> THEN "Less"
    ELSE IF ol = <<>> THEN "Greater"
    ELSE LET c == Label_cmp(sl[Len(sl)], ol[Len(ol)]) IN
         IF c # "Equal" THEN c
         ELSE name_cmp(SubSeq(sl, 1, Len(sl) - 1), SubSeq(ol, 1, Len(ol) - 1))

\* ToLabelIter::starts_with: base's labels are the first labels of self's.
ToLabelIter_starts_with(sl, bl) ==
    /\ Len(bl) <= Len(sl)
    /\ \A k \in 1..Len(bl) : Label_eq(sl[k], bl[k])

\* starts_with that asks for a suffix.
starts_with_as_ends_with(o, base) == ends_with(o, base)

starts_with(o, base) == ToLabelIter_starts_with(iter(o), iter(base))

\* All octets of the parts of a name.
RECURSIVE Flatten(_)
Flatten(parts) ==
    IF parts = <<>> THEN <<>> ELSE Head(parts) \o Flatten(Tail(parts))

\* eq that compares the octets as they are.
eq_octets(o, other) == o = Flatten(other)

\* PartialEq::eq; other is a flat name or a chain, given by its parts.
eq(o, other) == name_eq(iter(o), iter_labels(other))

\* partial_cmp with the two names swapped.
partial_cmp_swapped(o, other) == name_cmp(iter_labels(other), iter(o))

\* PartialOrd::partial_cmp, always Some; other is a flat name or a chain.
partial_cmp(o, other) == name_cmp(iter(o), iter_labels(other))

\* cmp that walks the labels from the front.
cmp_from_front(o, other) ==
    LET rev(s) == [i \in 1..Len(s) |-> s[Len(s) + 1 - i]] IN
    name_cmp(rev(iter(o)), rev(iter(other)))

\* Ord::cmp; other is a flat name.
\* cmp that tells names apart which differ in case only.
cmp_case_sensitive(o, other) ==
    LET r == name_cmp(iter(o), iter(other)) IN
    IF r = "Equal" /\ o # other THEN "Less" ELSE r

cmp(o, other) == name_cmp(iter(o), iter(other))

\* hash that feeds the octets as they are.
hash_octets(o, state) == state \o o

\* Hash::hash: every label of the name is fed to the hasher in turn.
RECURSIVE hash_labels(_, _)
hash_labels(labels, state) ==
    IF labels = <<>> THEN state
    ELSE hash_labels(Tail(labels), Label_hash(Head(labels), state))

hash(o, state) == hash_labels(iter(o), state)

-----------------------------------------------------------------------------
(* RelativeDname::is_label_start and check_index.                          *)

\* The walk with a label counted without its length octet.
RECURSIVE is_label_start_walk_payload_only(_, _)
is_label_start_walk_payload_only(tmp, index) ==
    IF Len(tmp) = 0 THEN "false"
    ELSE LET r == Label_split_from(tmp) IN
         IF ~r.ok THEN "panic"
         ELSE LET len == Label_len(r.label) IN
              IF index < len THEN "false"
              ELSE IF index = len THEN "true"
              ELSE is_label_start_walk_payload_only(r.tail, index - len)

is_label_start_payload_only(o, index) ==
    IF index = 0 THEN "true" ELSE is_label_start_walk_payload_only(o, index)

\* The while loop: "true", "false", or "panic" when the unwrap fails.
RECURSIVE is_label_start_walk(_, _)
is_label_start_walk(tmp, index) ==
    IF Len(tmp) = 0 THEN "false"
    ELSE LET r == Label_split_from(tmp) IN
         IF ~r.ok THEN "panic"
         ELSE LET len == Label_len(r.label) + 1 IN
              IF index < len THEN "false"
              ELSE IF index = len THEN "true"
              ELSE is_label_start_walk(r.tail, index - len)

is_label_start(o, index) ==
    IF index = 0 THEN "true" ELSE is_label_start_walk(o, index)

\* check_index that only checks the index against the length.
check_index_bounds_only(o, index) == index <= Len(o)

\* check_index returns normally (TRUE) or panics (FALSE).
check_index(o, index) == is_label_start(o, index) = "true"

-----------------------------------------------------------------------------
(* The Octets sub-ranging a name's buffer is asked for (bits/octets.rs;    *)
(* Bytes::slice and slice indexing): in range, or the call panics.         *)

Octets_range_ok(o, start, end) == start <= end /\ end <= Len(o)
Octets_range_from_ok(o, start) == start <= Len(o)
Octets_range_to_ok(o, end) == end <= Len(o)

-----------------------------------------------------------------------------
(* The slicing methods. Each yields what the call leaves behind:           *)
(*   panic - whether the call panicked,                                    *)
(*   self  - the receiver's octets after the call (or at the panic),       *)
(*   moved - whether the call consumed the receiver,                       *)
(*   ret   - the names returned, in order,                                 *)
(*   val   - the rest of the return value, as a string.                    *)

Done(s, r, v) == [panic |-> FALSE, self |-> s, moved |-> FALSE, ret |-> r, val |-> v]
Moved(r) == [panic |-> FALSE, self |-> <<>>, moved |-> TRUE, ret |-> r, val |-> "unit"]
Panicked(s) == [panic |-> TRUE, self |-> s, moved |-> FALSE, ret |-> <<>>, val |-> "panic"]

\* range that ignores where the range starts.
range_ignoring_start(o, start, end) ==
    IF ~check_index(o, start) THEN Panicked(o)
    ELSE IF ~check_index(o, end) THEN Panicked(o)
    ELSE IF ~Octets_range_ok(o, start, end) THEN Panicked(o)
    ELSE Done(o, <<SliceTo(o, end)>>, "unit")

range(o, start, end) ==
    IF ~check_index(o, start) THEN Panicked(o)
    ELSE IF ~check_index(o, end) THEN Panicked(o)
    ELSE IF ~Octets_range_ok(o, start, end) THEN Panicked(o)
    ELSE Done(o, <<Slice(o, start, end)>>, "unit")

range_from(o, start) ==
    IF ~check_index(o, start) THEN Panicked(o)
    ELSE IF ~Octets_range_from_ok(o, start) THEN Panicked(o)
    ELSE Done(o, <<SliceFrom(o, start)>>, "unit")

range_to(o, end) ==
    IF ~check_index(o, end) THEN Panicked(o)
    ELSE IF ~Octets_range_to_ok(o, end) THEN Panicked(o)
    ELSE Done(o, <<SliceTo(o, end)>>, "unit")

split_at(o, mid) ==
    IF ~check_index(o, mid) THEN Panicked(o)
    ELSE IF ~Octets_range_to_ok(o, mid) THEN Panicked(o)
    ELSE Moved(<<SliceTo(o, mid), SliceFrom(o, mid)>>)

\* split_off that cuts the receiver before it checks the index.
split_off_cut_first(o, mid) ==
    IF ~Octets_range_from_ok(o, mid) THEN Panicked(o)
    ELSE IF ~check_index(o, mid) THEN Panicked(SliceTo(o, mid))
    ELSE Done(SliceTo(o, mid), <<SliceFrom(o, mid)>>, "unit")

split_off(o, mid) ==
    IF ~check_index(o, mid) THEN Panicked(o)
    ELSE IF ~Octets_range_from_ok(o, mid) THEN Panicked(o)
    ELSE Done(SliceTo(o, mid), <<SliceFrom(o, mid)>>, "unit")

\* split_to that keeps the left part and returns the right one.
split_to_swapped(o, mid) ==
    IF ~check_index(o, mid) THEN Panicked(o)
    ELSE IF ~Octets_range_to_ok(o, mid) THEN Panicked(o)
    ELSE Done(SliceTo(o, mid), <<SliceFrom(o, mid)>>, "unit")

split_to(o, mid) ==
    IF ~check_index(o, mid) THEN Panicked(o)
    ELSE IF ~Octets_range_to_ok(o, mid) THEN Panicked(o)
    ELSE Done(SliceFrom(o, mid), <<SliceTo(o, mid)>>, "unit")

\* truncate without the label-start check.
truncate_unchecked(o, len) ==
    IF ~Octets_range_to_ok(o, len) THEN Panicked(o)
    ELSE Done(SliceTo(o, len), <<>>, "unit")

truncate(o, len) ==
    IF ~check_index(o, len) THEN Panicked(o)
    ELSE IF ~Octets_range_to_ok(o, len) THEN Panicked(o)
    ELSE Done(SliceTo(o, len), <<>>, "unit")

\* split_first that cuts with split_off: it hands out the rest and keeps the
\* first label.
split_first_with_split_off(o) ==
    IF is_empty(o) THEN Done(o, <<>>, "None")
    ELSE LET r == Label_split_from(o) IN
         IF ~r.ok THEN Done(o, <<>>, "None")
         ELSE LET s == split_off(o, Label_len(r.label) + 1) IN
              IF s.panic THEN s ELSE Done(s.self, s.ret, "Some")

split_first(o) ==
    IF is_empty(o) THEN Done(o, <<>>, "None")
    ELSE LET r == Label_split_from(o) IN
         IF ~r.ok THEN Done(o, <<>>, "None")
         ELSE LET s == split_to(o, Label_len(r.label) + 1) IN
              IF s.panic THEN s ELSE Done(s.self, s.ret, "Some")

\* parent that reports success whatever split_first returned.
parent_always_true(o) ==
    LET s == split_first(o) IN
    IF s.panic THEN s ELSE Done(s.self, <<>>, "true")

parent(o) ==
    LET s == split_first(o) IN
    IF s.panic THEN s
    ELSE Done(s.self, <<>>, IF s.val = "Some" THEN "true" ELSE "false")

\* strip_suffix that cuts without asking ends_with first.
strip_suffix_unchecked(o, base) ==
    IF Len(base) > Len(o) THEN Panicked(o)
    ELSE LET s == split_off(o, Len(o) - Len(base)) IN
         IF s.panic THEN s ELSE Done(s.self, <<>>, "Ok")

\* strip_suffix that cuts at base's length instead of at the length
\* difference.
strip_suffix_at_base_len(o, base) ==
    IF ends_with(o, base)
    THEN LET s == split_off(o, Len(base)) IN
         IF s.panic THEN s ELSE Done(s.self, <<>>, "Ok")
    ELSE Done(o, <<>>, "StripSuffixError")

\* base.compose_len() is the length of base's octets.
strip_suffix(o, base) ==
    IF ends_with(o, base)
    THEN IF Len(base) > Len(o) THEN Panicked(o)
         ELSE LET s == split_off(o, Len(o) - Len(base)) IN
              IF s.panic THEN s ELSE Done(s.self, <<>>, "Ok")
    ELSE Done(o, <<>>, "StripSuffixError")

-----------------------------------------------------------------------------
(* impl Compose for RelativeDname.                                         *)

compose_len(o) == Len(o)

\* compose that replaces the buffer's content.
compose_overwriting(o, buf) == o

\* buf.put_slice(self.as_ref()): the buffer's content, then the octets.
compose(o, buf) == buf \o o

-----------------------------------------------------------------------------
(* Chaining and absolute names.                                            *)

\* The length limit of an absolute name and of a chain.
MaxChainLen == 255

\* Dname::root(): the root label alone.
Dname_root == <<0>>

\* Chain::new(left, right): the lazy pair, or LongChainError with both
\* operands dropped.
Chain_new(left, right) ==
    IF compose_len(left) + compose_len(right) > MaxChainLen
    THEN [ok |-> FALSE, left |-> <<>>, right |-> <<>>]
    ELSE [ok |-> TRUE, left |-> left, right |-> right]

\* A chain composes as its left part followed by its right part.
Chain_compose_len(ch) == compose_len(ch.left) + compose_len(ch.right)
Chain_compose(ch, buf) == compose(ch.right, compose(ch.left, buf))

\* chain that hands back the pair without the length check.
chain_unchecked(o, other) == [ok |-> TRUE, left |-> o, right |-> other]

\* chain with the limit of a relative name, 254.
chain_limit_254(o, other) ==
    IF compose_len(o) + compose_len(other) > MaxNameLen
    THEN [ok |-> FALSE, left |-> <<>>, right |-> <<>>]
    ELSE [ok |-> TRUE, left |-> o, right |-> other]

chain(o, other) == Chain_new(o, other)

\* chain_root that chains the empty relative name instead of the root.
chain_root_onto_empty(o) ==
    LET r == chain(o, empty) IN [panic |-> ~r.ok, chain |-> r]

\* self.chain(Dname::root()).unwrap(): the unwrap panics on an error.
chain_root(o) ==
    LET r == chain(o, Dname_root) IN [panic |-> ~r.ok, chain |-> r]

\* into_builder that takes the buffer over whether or not it is shared.
into_builder_in_place(o, unique) == [bytes |-> o, copied |-> FALSE]

\* try_mut() hands the buffer over when nothing else holds it; otherwise the
\* content is copied into a new buffer. The builder's content is the name's.
into_builder(o, unique) == [bytes |-> o, copied |-> ~unique]

\* DnameBuilder::into_dname(): the root label is appended unless the name
\* would pass the limit.
DnameBuilder_into_dname(b) ==
    IF Len(b.bytes) + 1 > MaxChainLen
    THEN [ok |-> FALSE, octets |-> <<>>]
    ELSE [ok |-> TRUE, octets |-> b.bytes \o Dname_root]

\* self.into_builder().into_dname().unwrap()
into_absolute(o, unique) ==
    LET d == DnameBuilder_into_dname(into_builder(o, unique)) IN
    [panic |-> ~d.ok, octets |-> d.octets]

\* The error of an absolute name for an error of Label::split_from; short
\* data is reported as ShortBuf.
DnameError_from(err) ==
    CASE err = "Pointer"  -> "CompressedName"
      [] err = "BadType"  -> "BadLabel"
      [] err = "ShortBuf" -> "ShortBuf"

\* Dname::from_octets: whole labels of which exactly the last is the root.
RECURSIVE Dname_from_octets_scan(_)
Dname_from_octets_scan(tmp) ==
    IF Len(tmp) = 0 THEN "RelativeName"
    ELSE LET r == Label_split_from(tmp) IN
         IF ~r.ok THEN DnameError_from(r.err)
         ELSE IF Label_is_root(r.label)
              THEN IF Len(r.tail) = 0 THEN "Ok" ELSE "TrailingData"
              ELSE Dname_from_octets_scan(r.tail)

\* Dname::from_octets that stops at the first root label, whatever follows.
Dname_from_octets_first_root(octets) ==
    LET r == Dname_from_octets_scan(octets) IN
    IF Len(octets) > MaxChainLen THEN "LongName"
    ELSE IF r = "TrailingData" THEN "Ok" ELSE r

Dname_from_octets(octets) ==
    IF Len(octets) > MaxChainLen THEN "LongName"
    ELSE Dname_from_octets_scan(octets)

-----------------------------------------------------------------------------
(* The inputs the callers are modelled to pass.                            *)

\* Octets of the parse inputs: root, two label lengths, 'A' and 'a' (both
\* also length octets of the reserved class), and a pointer octet.
ParseBytes == {0, 1, 2, 65, 97, 192}

\* Octets of the names that are sliced: two label lengths (which also occur
\* as payload) and 'a'.
SliceBytes == {1, 2, 97}

\* Octets of the suffixes handed to strip_suffix: as above, and 'A'.
BaseBytes == {1, 2, 65, 97}

\* One label: its length octet, then n payload octets 'a'.
PadLabel(n) == <<n>> \o Rep(97, n)

\* 252 octets of whole labels, three of them of the maximal length 63: two
\* octets short of the longest name.
Pad == PadLabel(MaxLabelLen) \o PadLabel(MaxLabelLen) \o PadLabel(MaxLabelLen)
         \o PadLabel(MaxLabelLen - 4)

ParseInputs ==
    Tails(ParseBytes, MaxTail) \cup {Pad \o t : t \in Tails(ParseBytes, MaxTail)}

SliceInputs ==
    Tails(SliceBytes, MaxSliceTail)
        \cup {Pad \o t : t \in Tails(SliceBytes, MaxLongTail)}

\* The offsets at which each label of `labels` ends, counted from `at`.
RECURSIVE LabelEnds(_, _)
LabelEnds(labels, at) ==
    IF Len(labels) = 0 THEN {}
    ELSE LET e == at + Len(Head(labels)) + 1 IN {e} \cup LabelEnds(Tail(labels), e)

\* Offset 0 and the end of every label of the name.
LabelStartSet(o) == {0} \cup LabelEnds(iter(o), 0)

\* The offsets tried on a name: every label start, the offsets next to one,
\* and two offsets past the end.
Offsets(o) ==
    LET starts == LabelStartSet(o) IN
    {i \in 0..(Len(o) + 2) :
        \/ i > Len(o)
        \/ \E s \in starts : i = s \/ i + 1 = s \/ i = s + 1}

\* The suffixes tried by strip_suffix: small valid names, and the receiver's
\* own label-aligned suffixes.
BaseNames == {t \in Tails(BaseBytes, MaxBase) : from_octets(t) = "Ok"}
Bases(o) == BaseNames \cup {SliceFrom(o, s) : s \in LabelStartSet(o)}

\* Octets of the names that are compared: two label lengths (which also
\* occur as payload), 'A' and 'a'.
CmpBytes == {1, 2, 65, 97}

\* The names of the example of RFC 4034, section 6.1, in its order, as the
\* test cmp spells them.
example == <<7, 101, 120, 97, 109, 112, 108, 101>>

Rfc4034Names ==
    << example,
       <<1, 97>> \o example,
       <<8, 121, 108, 106, 107, 106, 108, 106, 107, 1, 97>> \o example,
       <<1, 90, 1, 97>> \o example,
       <<4, 122, 65, 66, 67, 1, 97>> \o example,
       <<1, 122>> \o example,
       <<1, 1, 1, 122>> \o example,
       <<1, 42, 1, 122>> \o example,
       <<1, 200, 1, 122>> \o example >>

\* The buffers parsed into the names that are compared.
CmpInputs ==
    Tails(CmpBytes, MaxCmpTail)
        \cup {Rfc4034Names[i] : i \in 1..Len(Rfc4034Names)}

\* The flat names a name is compared with.
CmpNames == {t \in CmpInputs : from_octets(t) = "Ok"} \cup {wildcard}

\* The names a name is compared with, each given by its parts: flat, or a
\* chain of the two halves of a name cut at one of its label starts.
CmpOthers ==
    {<<b>> : b \in CmpNames}
        \cup UNION {{<<SliceTo(b, s), SliceFrom(b, s)>> : s \in LabelStartSet(b)}
                      : b \in CmpNames}

\* Contents of the output buffer before compose() is called.
OutPrefixes == Tails({7}, MaxOut)

-----------------------------------------------------------------------------
(* The state machine.                                                      *)

NoCall == [op |-> "none", a |-> 0, b |-> 0, base |-> <<>>, before |-> <<>>,
           val |-> "none", n |-> 0]

Call(op, a, b, base, before, val, n) ==
    [op |-> op, a |-> a, b |-> b, base |-> base, before |-> before,
     val |-> val, n |-> n]

\* No buffer is modelled until a name is made from a shared one.
NoHeap == [buf |-> <<>>, handles |-> <<>>]

Init ==
    /\ pc = "start"
    /\ input = <<>>
    /\ res = "none"
    /\ self = <<>>
    /\ rets = <<>>
    /\ out = <<>>
    /\ last = NoCall
    /\ heap = NoHeap

\* A call of from_octets on buffer b: the name exists only on Ok.
FromOctets(b) ==
    /\ pc = "start"
    /\ input' = b
    /\ res' = from_octets(b)
    /\ pc' = IF res' = "Ok" THEN "ready" ELSE "failed"
    /\ self' = IF res' = "Ok" THEN b ELSE <<>>
    /\ rets' = <<>>
    /\ last' = Call("from_octets", 0, 0, <<>>, <<>>, res', 0)
    /\ UNCHANGED <<out, heap>>

\* RelativeDname::from_slice on the parse inputs.
FromSlice ==
    /\ pc = "start"
    /\ \E b \in ParseInputs : FromOctets(b)

\* RelativeDname::from_bytes on the buffers that are then sliced.
FromBytes ==
    /\ pc = "start"
    /\ \E b \in SliceInputs : FromOctets(b)

\* A constructor that needs no validation.
Construct(op, o) ==
    /\ pc = "start"
    /\ pc' = "ready"
    /\ self' = o
    /\ rets' = <<>>
    /\ last' = Call(op, 0, 0, <<>>, <<>>, "unit", 0)
    /\ UNCHANGED <<input, res, out, heap>>

Empty == Construct("empty", empty)

Wildcard == Construct("wildcard", wildcard)

\* A method call on the receiver that left r behind.
Apply(op, a, b, base, r) ==
    /\ pc = "ready"
    /\ pc' = IF r.panic THEN "panicked" ELSE IF r.moved THEN "moved" ELSE "ready"
    /\ self' = r.self
    /\ rets' = r.ret
    /\ last' = Call(op, a, b, base, self, r.val, 0)
    /\ UNCHANGED <<input, res, out, heap>>

Range ==
    /\ pc = "ready"
    /\ \E start \in Offsets(self), end \in Offsets(self) :
          Apply("range", start, end, <<>>, range(self, start, end))

RangeFrom ==
    /\ pc = "ready"
    /\ \E start \in Offsets(self) :
          Apply("range_from", start, 0, <<>>, range_from(self, start))

RangeTo ==
    /\ pc = "ready"
    /\ \E end \in Offsets(self) :
          Apply("range_to", end, 0, <<>>, range_to(self, end))

SplitAt ==
    /\ pc = "ready"
    /\ \E mid \in Offsets(self) :
          Apply("split_at", mid, 0, <<>>, split_at(self, mid))

SplitOff ==
    /\ pc = "ready"
    /\ \E mid \in Offsets(self) :
          Apply("split_off", mid, 0, <<>>, split_off(self, mid))

SplitTo ==
    /\ pc = "ready"
    /\ \E mid \in Offsets(self) :
          Apply("split_to", mid, 0, <<>>, split_to(self, mid))

Truncate ==
    /\ pc = "ready"
    /\ \E len \in Offsets(self) :
          Apply("truncate", len, 0, <<>>, truncate(self, len))

SplitFirst == Apply("split_first", 0, 0, <<>>, split_first(self))

Parent == Apply("parent", 0, 0, <<>>, parent(self))

StripSuffix ==
    /\ pc = "ready"
    /\ \E base \in Bases(self) :
          Apply("strip_suffix", 0, 0, base, strip_suffix(self, base))

\* ndots() on the receiver, the caller's last call; an overflowing
\* subtraction panics or wraps, as the build decides.
Ndots ==
    /\ pc = "ready"
    /\ LET r == ndots(self) IN
       \E checked \in BOOLEAN :
          /\ pc' = IF r.underflow /\ checked THEN "panicked" ELSE "done"
          /\ last' = Call("ndots", 0, 0, <<>>, self,
                          IF ~r.underflow THEN "unit"
                          ELSE IF checked THEN "panic" ELSE "wrapped",
                          r.n)
    /\ UNCHANGED <<input, res, self, rets, out, heap>>

\* chain_root() consumes the receiver; `out` holds what the chain composes
\* to and last.n its compose_len().
ChainRoot ==
    /\ pc = "ready"
    /\ LET r == chain_root(self) IN
          /\ pc' = IF r.panic THEN "panicked" ELSE "moved"
          /\ self' = IF r.panic THEN self ELSE <<>>
          /\ out' = IF r.panic THEN <<>> ELSE Chain_compose(r.chain, <<>>)
          /\ last' = Call("chain_root", 0, 0, <<>>, self,
                          IF r.panic THEN "panic" ELSE "unit",
                          IF r.panic THEN 0 ELSE Chain_compose_len(r.chain))
    /\ rets' = <<>>
    /\ UNCHANGED <<input, res, heap>>

\* into_absolute() consumes the receiver, whose buffer may or may not be
\* held by another name; `out` holds the octets of the absolute name.
IntoAbsolute ==
    /\ pc = "ready"
    /\ \E unique \in BOOLEAN :
          LET r == into_absolute(self, unique) IN
          /\ pc' = IF r.panic THEN "panicked" ELSE "moved"
          /\ self' = IF r.panic THEN self ELSE <<>>
          /\ out' = r.octets
          /\ last' = Call("into_absolute", IF unique THEN 1 ELSE 0, 0, <<>>,
                          self, IF r.panic THEN "panic" ELSE "unit",
                          Len(r.octets))
    /\ rets' = <<>>
    /\ UNCHANGED <<input, res, heap>>

\* The caller goes on with one of the names the last call returned.
Take ==
    /\ pc \in {"ready", "moved"}
    /\ \E k \in 1..Len(rets) :
          /\ self' = rets[k]
          /\ last' = Call("take", k, 0, <<>>, self, "unit", 0)
    /\ pc' = "ready"
    /\ rets' = <<>>
    /\ UNCHANGED <<input, res, out, heap>>

\* compose_len() on the receiver, the caller's last call.
ComposeLen ==
    /\ pc = "ready"
    /\ pc' = "done"
    /\ last' = Call("compose_len", 0, 0, <<>>, self, "unit", compose_len(self))
    /\ UNCHANGED <<input, res, self, rets, out, heap>>

\* compose(buf) on the receiver, buf holding `pre` already; the caller's
\* last call.
Compose ==
    /\ pc = "ready"
    /\ pc' = "done"
    /\ \E pre \in OutPrefixes :
          /\ out' = compose(self, pre)
          /\ last' = Call("compose", 0, 0, pre, self, "unit", 0)
    /\ UNCHANGED <<input, res, self, rets, heap>>

\* is_label_start(index) on the receiver, the caller's last call.
IsLabelStart ==
    /\ pc = "ready"
    /\ pc' = "done"
    /\ \E index \in 0..(Len(self) + 2) :
          last' = Call("is_label_start", index, 0, <<>>, self,
                       is_label_start(self, index), 0)
    /\ UNCHANGED <<input, res, self, rets, out, heap>>

\* A name is built or parsed, then sliced and split.
Next ==
    \/ FromBytes
    \/ Empty
    \/ Wildcard
    \/ Range
    \/ RangeFrom
    \/ RangeTo
    \/ SplitAt
    \/ SplitOff
    \/ SplitTo
    \/ Truncate
    \/ SplitFirst
    \/ Parent
    \/ StripSuffix
    \/ ChainRoot
    \/ IntoAbsolute
    \/ Ndots
    \/ Take

Spec == Init /\ [][Next]_vars

\* Dname::from_slice on the parse inputs; `out` holds the octets of the
\* absolute name made.
DnameFromSlice ==
    /\ pc = "start"
    /\ \E b \in ParseInputs :
          /\ input' = b
          /\ res' = Dname_from_octets(b)
          /\ out' = IF res' = "Ok" THEN b ELSE <<>>
          /\ last' = Call("Dname_from_octets", 0, 0, <<>>, <<>>, res', 0)
    /\ pc' = IF res' = "Ok" THEN "done" ELSE "failed"
    /\ UNCHANGED <<self, rets, heap>>

\* A buffer is parsed, then queried and composed.
NextParse ==
    \/ FromSlice
    \/ DnameFromSlice
    \/ ComposeLen
    \/ Compose
    \/ IsLabelStart

SpecParse == Init /\ [][NextParse]_vars

\* The caller calls parent() or split_first() once more and counts, in
\* last.n, the calls so far that found a label.
CallParent ==
    /\ pc = "ready"
    /\ \E m \in {"parent", "split_first"} :
          LET r == IF m = "parent" THEN parent(self) ELSE split_first(self)
              found == IF r.val \in {"true", "Some"} THEN 1 ELSE 0
              sofar == IF last.op \in {"parent", "split_first"}
                       THEN last.n ELSE 0
          IN  /\ pc' = IF r.panic THEN "panicked" ELSE "ready"
              /\ self' = r.self
              /\ rets' = r.ret
              /\ last' = Call(m, 0, 0, <<>>, self, r.val, sofar + found)
    /\ UNCHANGED <<input, res, out, heap>>

\* A buffer is parsed, then walked label by label towards the root; the
\* caller keeps calling.
NextParent ==
    \/ FromBytes
    \/ CallParent

SpecParent == Init /\ [][NextParent]_vars /\ WF_vars(CallParent)

\* The names chained onto the receiver: small relative names, the receiver's
\* own label-aligned suffixes, and the root name.
ChainOthers(o) == Bases(o) \cup {Dname_root}

\* chain(other) consumes both names: on Ok the chain holds them (rets) and
\* composes to `out`; on an error nothing is handed back.
Chain ==
    /\ pc = "ready"
    /\ \E other \in ChainOthers(self) :
          LET r == chain(self, other) IN
          /\ rets' = IF r.ok THEN <<r.left, r.right>> ELSE <<>>
          /\ out' = IF r.ok THEN Chain_compose(r, <<>>) ELSE <<>>
          /\ last' = Call("chain", 0, 0, other, self,
                          IF r.ok THEN "Ok" ELSE "LongChainError",
                          IF r.ok THEN Chain_compose_len(r) ELSE 0)
    /\ pc' = "moved"
    /\ self' = <<>>
    /\ UNCHANGED <<input, res, heap>>

\* A name is built or parsed, then chained with another name.
NextChain ==
    \/ FromBytes
    \/ Empty
    \/ Wildcard
    \/ Chain

SpecChain == Init /\ [][NextChain]_vars

\* RelativeDname::from_slice on the buffers of the names that are compared.
FromSliceCmp ==
    /\ pc = "start"
    /\ \E b \in CmpInputs : FromOctets(b)

Bool(b) == IF b THEN "true" ELSE "false"

\* A comparison of the receiver with the name `other` (given by its parts),
\* the caller's last call: rets holds other's parts, last.base their octets
\* and last.n their number.
Compare(op, other, val) ==
    /\ pc' = "done"
    /\ rets' = other
    /\ last' = Call(op, 0, 0, Flatten(other), self, val, Len(other))
    /\ UNCHANGED <<input, res, self, out, heap>>

Eq ==
    /\ pc = "ready"
    /\ \E other \in CmpOthers : Compare("eq", other, Bool(eq(self, other)))

PartialCmp ==
    /\ pc = "ready"
    /\ \E other \in CmpOthers :
          Compare("partial_cmp", other, partial_cmp(self, other))

Cmp ==
    /\ pc = "ready"
    /\ \E b \in CmpNames : Compare("cmp", <<b>>, cmp(self, b))

StartsWith ==
    /\ pc = "ready"
    /\ \E b \in CmpNames :
          Compare("starts_with", <<b>>, Bool(starts_with(self, b)))

EndsWith ==
    /\ pc = "ready"
    /\ \E b \in CmpNames :
          Compare("ends_with", <<b>>, Bool(ends_with(self, b)))

\* The receiver and the name b are each fed to a hasher of their own: `out`
\* holds what the receiver's hasher was fed, last.base what b's was.
Hash ==
    /\ pc = "ready"
    /\ pc' = "done"
    /\ \E b \in CmpNames :
          /\ rets' = <<b>>
          /\ out' = hash(self, <<>>)
          /\ last' = Call("hash", 0, 0, hash(b, <<>>), self, "unit", 1)
    /\ UNCHANGED <<input, res, self, heap>>

\* A name is built or parsed, then compared with another name.
NextCmp ==
    \/ FromSliceCmp
    \/ Wildcard
    \/ Eq
    \/ PartialCmp
    \/ Cmp
    \/ StartsWith
    \/ EndsWith
    \/ Hash

SpecCmp == Init /\ [][NextCmp]_vars

\* The names of the order's laws: small names, the names of RFC 4034 and
\* the two spellings of www.example.com of the test cmp.
MaxOrdTail == 3

CmpTestNames ==
    {<<3, 119, 119, 119, 7, 101, 120, 97, 109, 112, 108, 101, 3, 99, 111, 109>>,
     <<3, 119, 87, 119, 7, 101, 88, 65, 77, 112, 108, 101, 3, 67, 111, 109>>}

OrdInputs ==
    Tails(CmpBytes, MaxOrdTail)
        \cup {Rfc4034Names[i] : i \in 1..Len(Rfc4034Names)}
        \cup CmpTestNames

OrdNames == {t \in OrdInputs : from_octets(t) = "Ok"}

FromSliceOrd ==
    /\ pc = "start"
    /\ \E b \in OrdInputs : FromOctets(b)

EqOrd ==
    /\ pc = "ready"
    /\ \E b \in OrdNames : Compare("eq", <<b>>, Bool(eq(self, <<b>>)))

PartialCmpOrd ==
    /\ pc = "ready"
    /\ \E b \in OrdNames :
          Compare("partial_cmp", <<b>>, partial_cmp(self, <<b>>))

CmpOrd ==
    /\ pc = "ready"
    /\ \E b \in OrdNames : Compare("cmp", <<b>>, cmp(self, b))

\* A name is parsed and then compared with another name.
NextOrd ==
    \/ FromSliceOrd
    \/ EqOrd
    \/ PartialCmpOrd
    \/ CmpOrd

SpecOrd == Init /\ [][NextOrd]_vars

-----------------------------------------------------------------------------
(* Names over one shared, reference-counted buffer (Bytes): a handle views *)
(* the octets buf[s..e] of the allocation; clones and the names handed out *)
(* by the splitting methods are further handles on the same allocation.    *)

\* Octets of the names made over a shared buffer.
ShareBytes == {1, 97}

\* The buffers that are shared.
ShareInputs == Tails(ShareBytes, MaxShareLen)

\* The label a builder appends.
AppendLabel == <<1, 66>>

\* A handle viewing buf[s..e] whose holder was given the octets o.
Handle(s, e, o) == [s |-> s, e |-> e, octets |-> o, live |-> TRUE]

\* What is read through handle h of heap hp.
Read(hp, h) == Slice(hp.buf, h.s, h.e)

\* The handles that have not been dropped.
Live(hp) == {k \in 1..Len(hp.handles) : hp.handles[k].live}

\* Bytes::try_mut succeeds when no other handle holds the allocation.
Bytes_try_mut_ok(hp) == Cardinality(Live(hp)) = 1

\* Octets::range_to and Octets::range_from on a handle: a view of the same
\* allocation.
Octets_range_to(h, mid, o) == Handle(h.s, h.s + mid, o)
Octets_range_from(h, mid, o) == Handle(h.s + mid, h.e, o)

\* The methods that slice the receiver in place, and whether the receiver
\* keeps the octets before the cut.
InPlaceOps ==
    {"split_off", "split_to", "truncate", "split_first", "parent",
     "strip_suffix"}
KeepsFront(op) == op \in {"split_off", "truncate", "strip_suffix"}

\* The result of the in-place method op on the octets o.
InPlace(op, o, mid, base) ==
    CASE op = "split_off" -> split_off(o, mid)
      [] op = "split_to" -> split_to(o, mid)
      [] op = "truncate" -> truncate(o, mid)
      [] op = "split_first" -> split_first(o)
      [] op = "parent" -> parent(o)
      [] op = "strip_suffix" -> strip_suffix(o, base)

\* RelativeDname::from_bytes on a buffer that is then shared.
FromBytesShared ==
    /\ pc = "start"
    /\ \E b \in ShareInputs :
          /\ input' = b
          /\ res' = from_octets(b)
          /\ pc' = IF res' = "Ok" THEN "ready" ELSE "failed"
          /\ self' = IF res' = "Ok" THEN b ELSE <<>>
          /\ heap' = IF res' = "Ok"
                     THEN [buf |-> b, handles |-> <<Handle(0, Len(b), b)>>]
                     ELSE NoHeap
    /\ rets' = <<>>
    /\ last' = Call("from_octets", 0, 0, <<>>, <<>>, res', 0)
    /\ UNCHANGED out

\* clone() of the name held through handle k: one more handle.
Clone ==
    /\ pc = "ready"
    /\ Len(heap.handles) < MaxHandles
    /\ \E k \in Live(heap) :
          /\ heap' = [heap EXCEPT !.handles = Append(@, heap.handles[k])]
          /\ self' = Read(heap, heap.handles[k])
          /\ last' = Call("clone", 0, k, <<>>, self', "unit", 0)
    /\ rets' = <<>>
    /\ UNCHANGED <<pc, input, res, out>>

\* The name held through handle k is dropped.
Drop ==
    /\ pc = "ready"
    /\ \E k \in Live(heap) :
          /\ heap' = [heap EXCEPT !.handles[k].live = FALSE]
          /\ self' = <<>>
          /\ last' = Call("drop", 0, k, <<>>, Read(heap, heap.handles[k]),
                          "unit", 0)
    /\ rets' = <<>>
    /\ UNCHANGED <<pc, input, res, out>>

\* An in-place slicing method on the name held through handle k, at a label
\* start (strip_suffix with the suffix from there on). The receiver's handle
\* becomes range_to(cut) or range_from(cut) of itself; a returned name is the
\* other of the two and is kept while there is room.
SliceShared ==
    /\ pc = "ready"
    /\ \E k \in Live(heap), op \in InPlaceOps :
          LET h == heap.handles[k]
              o == Read(heap, h)
          IN  \E mid \in (IF op \in {"split_first", "parent"} THEN {0}
                          ELSE LabelStartSet(o)) :
                 LET base == IF op = "strip_suffix" THEN SliceFrom(o, mid)
                             ELSE <<>>
                     r == InPlace(op, o, mid, base)
                     cut == IF KeepsFront(op) THEN Len(r.self)
                            ELSE Len(o) - Len(r.self)
                     kept == IF KeepsFront(op)
                             THEN Octets_range_to(h, cut, r.self)
                             ELSE Octets_range_from(h, cut, r.self)
                     given == IF r.ret = <<>> THEN <<>>
                              ELSE IF KeepsFront(op)
                              THEN <<Octets_range_from(h, cut, r.ret[1])>>
                              ELSE <<Octets_range_to(h, cut, r.ret[1])>>
                     room == Len(heap.handles) < MaxHandles
                 IN  /\ pc' = IF r.panic THEN "panicked" ELSE "ready"
                     /\ heap' = IF r.panic THEN heap
                                ELSE [heap EXCEPT !.handles =
                                        [@ EXCEPT ![k] = kept]
                                            \o (IF room THEN given ELSE <<>>)]
                     /\ self' = r.self
                     /\ rets' = r.ret
                     /\ last' = Call(op, mid, k, base, o, r.val, 0)
    /\ UNCHANGED <<input, res, out>>

\* into_builder() on the name held through handle k, and the builder's
\* first append: in place in the allocation when try_mut handed it over,
\* into a copy of the name's octets otherwise. `out` is the builder's
\* content; this is the last step looked at.
IntoBuilder ==
    /\ pc = "ready"
    /\ \E k \in Live(heap) :
          LET h == heap.handles[k]
              o == Read(heap, h)
              b == into_builder(o, Bytes_try_mut_ok(heap))
              buf == IF b.copied THEN heap.buf
                     ELSE SliceTo(heap.buf, h.e) \o AppendLabel
          IN  /\ heap' = [buf |-> buf,
                          handles |-> [heap.handles EXCEPT ![k].live = FALSE]]
              /\ out' = b.bytes \o AppendLabel
              /\ self' = <<>>
              /\ last' = Call("into_builder", 0, k, <<>>, o,
                              IF b.copied THEN "copied" ELSE "in place", 0)
    /\ pc' = "done"
    /\ rets' = <<>>
    /\ UNCHANGED <<input, res>>

\* A shared buffer is parsed; its names are cloned, sliced, dropped and
\* turned into builders in any order.
NextShare ==
    \/ FromBytesShared
    \/ Clone
    \/ Drop
    \/ SliceShared
    \/ IntoBuilder

SpecShare == Init /\ [][NextShare]_vars

-----------------------------------------------------------------------------
(* OPT record data: a sequence of options, each a 16 bit code, a 16 bit    *)
(* length and that many octets of data.                                    *)

MaxOpts == 2
MaxOptLen == 2

\* The option code of the option type the iterator is asked for, and one
\* of another type.
Dau_CODE == 5
OtherCode == 9

OptDataBytes == {0, 5}

\* A parser over octets with pos octets read.
Parser_from_octets(octets) == [octets |-> octets, pos |-> 0]

Parser_remaining(p) == Len(p.octets) - p.pos

\* Results of the parser's reading methods: err is ShortBuf, and the parser
\* is left where it was.
Parser_advance(p, n) ==
    IF Parser_remaining(p) < n
    THEN [err |-> TRUE, parser |-> p, val |-> 0, octets |-> <<>>]
    ELSE [err |-> FALSE, parser |-> [p EXCEPT !.pos = p.pos + n],
          val |-> 0, octets |-> <<>>]

Parser_parse_u16(p) ==
    IF Parser_remaining(p) < 2
    THEN [err |-> TRUE, parser |-> p, val |-> 0, octets |-> <<>>]
    ELSE [err |-> FALSE, parser |-> [p EXCEPT !.pos = p.pos + 2],
          val |-> (p.octets[p.pos + 1] * 256 + p.octets[p.pos + 2]) % 65536,
          octets |-> <<>>]

Parser_parse_octets(p, len) ==
    IF Parser_remaining(p) < len
    THEN [err |-> TRUE, parser |-> p, val |-> 0, octets |-> <<>>]
    ELSE [err |-> FALSE, parser |-> [p EXCEPT !.pos = p.pos + len],
          val |-> 0,
          octets |-> SubSeq(p.octets, p.pos + 1, p.pos + len)]

\* The loop of Opt::from_octets: code, length and data of every option
\* must be there in full.
RECURSIVE Opt_from_octets_loop(_)
Opt_from_octets_loop(parser) ==
    IF Parser_remaining(parser) > 0
    THEN LET code == Parser_advance(parser, 2)
             len == Parser_parse_u16(code.parser)
             data == Parser_advance(len.parser, len.val)
         IN  IF code.err \/ len.err \/ data.err THEN "ShortBuf"
             ELSE Opt_from_octets_loop(data.parser)
    ELSE "Ok"

Opt_from_octets(octets) == Opt_from_octets_loop(Parser_from_octets(octets))

\* Dau::parse_all takes the len octets of the option's data.
Dau_parse_all(parser, len) == Parser_parse_octets(parser, len)

\* The outcome of one step of the iterator: kind is "Some" (an option of
\* the type asked for, its data in octets), "Skip" (Ok(None)), "Err" or
\* "panic"; parser is where the iterator's parser is left.
Step(kind, parser, octets) ==
    [kind |-> kind, parser |-> parser, octets |-> octets]

parse_option(code, parser, len) ==
    IF code = Dau_CODE
    THEN LET r == Dau_parse_all(parser, len)
         IN  IF r.err THEN Step("Err", r.parser, <<>>)
             ELSE Step("Some", r.parser, r.octets)
    ELSE Step("Skip", parser, <<>>)

\* Both header fields are unwrapped.
next_step(parser) ==
    LET code == Parser_parse_u16(parser)
        len == Parser_parse_u16(code.parser)
    IN  IF code.err \/ len.err THEN Step("panic", parser, <<>>)
        ELSE parse_option(code.val, len.parser, len.val)

\* OptIter::next: steps until an option or an error is to be returned or
\* nothing remains.
RECURSIVE OptIter_next(_)
OptIter_next(parser) ==
    IF Parser_remaining(parser) > 0
    THEN LET r == next_step(parser)
         IN  IF r.kind = "Skip" THEN OptIter_next(r.parser) ELSE r
    ELSE Step("None", parser, <<>>)

\* One option on the wire.
Option(code, data) == <<code \div 256, code % 256>>
                         \o <<Len(data) \div 256, Len(data) % 256>> \o data

OptOptions ==
    {Option(code, data) : code \in {Dau_CODE, OtherCode},
                          data \in Tails(OptDataBytes, MaxOptLen)}

RECURSIVE OptSeqs(_)
OptSeqs(n) ==
    IF n = 0 THEN {<<>>}
    ELSE LET shorter == OptSeqs(n - 1)
         IN  shorter \cup {o \o s : o \in OptOptions, s \in shorter}

\* Whole option sequences, and the same cut short by one octet.
OptInputs ==
    LET whole == OptSeqs(MaxOpts)
    IN  whole \cup {SliceTo(b, Len(b) - 1) : b \in whole \ {<<>>}}

\* Opt::from_octets on OPT record data b; on Ok, Opt::iter hands a
\* parser over all of it to the iterator.
OptFromOctets ==
    /\ pc = "start"
    /\ \E b \in OptInputs :
          /\ input' = b
          /\ res' = Opt_from_octets(b)
          /\ self' = IF res' = "Ok" THEN b ELSE <<>>
    /\ pc' = IF res' = "Ok" THEN "ready" ELSE "failed"
    /\ rets' = <<>>
    /\ out' = <<>>
    /\ last' = Call("Opt_from_octets", 0, 0, <<>>, <<>>, res', 0)
    /\ UNCHANGED heap

\* One call of OptIter::next. `self` is what the iterator's parser has
\* left to read, `rets` the data of the options returned so far.
OptIterNext ==
    /\ pc = "ready"
    /\ LET pos == Len(input) - Len(self)
           r == OptIter_next([octets |-> input, pos |-> pos])
       IN  /\ self' = SliceFrom(input, r.parser.pos)
           /\ rets' = IF r.kind = "Some" THEN Append(rets, r.octets) ELSE rets
           /\ out' = r.octets
           /\ pc' = CASE r.kind = "panic" -> "panicked"
                      [] r.kind = "None" -> "done"
                      [] OTHER -> "ready"
           /\ last' = Call("OptIter_next", pos, r.parser.pos, <<>>, self,
                           r.kind, Len(rets'))
    /\ UNCHANGED <<input, res, heap>>

NextOpt ==
    \/ OptFromOctets
    \/ OptIterNext

SpecOpt == Init /\ [][NextOpt]_vars

-----------------------------------------------------------------------------
(* DnameIter as a double-ended iterator: next and next_back on one slice.  *)

MaxIterLen == 5
MaxNone == 2

IterBytes == {1, 2, 97}

\* What one call leaves: the item (some, label) and the iterator's slice.
IterItem(label, slice) ==
    [panic |-> FALSE, some |-> TRUE, label |-> label, slice |-> slice]
IterNone(slice) ==
    [panic |-> FALSE, some |-> FALSE, label |-> <<>>, slice |-> slice]
IterPanic(slice) ==
    [panic |-> TRUE, some |-> FALSE, label |-> <<>>, slice |-> slice]

DnameIter_next(slice) ==
    LET r == Label_split_from(slice) IN
    IF ~r.ok THEN IterNone(slice)
    ELSE IterItem(r.label, r.tail)

\* The loop of next_back that cuts the last label's payload only.
RECURSIVE next_back_loop_keeps_length_octet(_, _)
next_back_loop_keeps_length_octet(slice, tmp) ==
    LET r == Label_split_from(tmp) IN
    IF ~r.ok THEN IterPanic(slice)
    ELSE IF is_empty(r.tail)
         THEN LET end == Len(slice) - Label_len(r.label)
              IN  IterItem(r.label, SliceTo(slice, end))
         ELSE next_back_loop_keeps_length_octet(slice, r.tail)

\* The loop of next_back: tmp walks to the last label, which is cut off
\* the slice; the split is unwrapped.
RECURSIVE next_back_loop(_, _)
next_back_loop(slice, tmp) ==
    LET r == Label_split_from(tmp) IN
    IF ~r.ok THEN IterPanic(slice)
    ELSE IF is_empty(r.tail)
         THEN LET end == Len(slice) - (Label_len(r.label) + 1)
              IN  IterItem(r.label, SliceTo(slice, end))
         ELSE next_back_loop(slice, r.tail)

\* next_back with the loop that cuts the payload only.
DnameIter_next_back_keeps_length_octet(slice) ==
    IF is_empty(slice) THEN IterNone(slice)
    ELSE next_back_loop_keeps_length_octet(slice, slice)

DnameIter_next_back(slice) ==
    IF is_empty(slice) THEN IterNone(slice)
    ELSE next_back_loop(slice, slice)

\* The names iterated over: relative names and the same made absolute.
IterInputs ==
    LET rel == {b \in Tails(IterBytes, MaxIterLen) : from_octets(b) = "Ok"}
    IN  rel \cup {b \o Dname_root : b \in rel}

\* iter() on a name: the iterator starts with all of the name's octets.
IterNew ==
    /\ pc = "start"
    /\ \E b \in IterInputs :
          /\ input' = b
          /\ self' = b
    /\ pc' = "ready"
    /\ res' = "Ok"
    /\ rets' = <<>>
    /\ out' = <<>>
    /\ last' = Call("iter", 0, 0, <<>>, <<>>, "none", 0)
    /\ UNCHANGED heap

\* One call on the iterator. `self` is its slice, `rets` the labels next
\* has returned in order, `out` the labels next_back has returned, each
\* put with its length octet in front of the ones returned before it;
\* last.n counts the calls that returned None.
IterCall(op, r) ==
    /\ self' = r.slice
    /\ rets' = IF op = "next" /\ r.some THEN Append(rets, r.label) ELSE rets
    /\ out' = IF op = "next_back" /\ r.some
              THEN <<Label_len(r.label)>> \o r.label \o out
              ELSE out
    /\ pc' = IF r.panic THEN "panicked" ELSE "ready"
    /\ last' = Call(op, 0, 0, <<>>, self,
                    IF r.panic THEN "panic"
                    ELSE IF r.some THEN "Some" ELSE "None",
                    IF r.some \/ r.panic THEN last.n ELSE last.n + 1)
    /\ UNCHANGED <<input, res, heap>>

IterNext ==
    /\ pc = "ready"
    /\ last.n < MaxNone
    /\ IterCall("next", DnameIter_next(self))

IterNextBack ==
    /\ pc = "ready"
    /\ last.n < MaxNone
    /\ IterCall("next_back", DnameIter_next_back(self))

NextIter ==
    \/ IterNew
    \/ IterNext
    \/ IterNextBack

SpecIter == Init /\ [][NextIter]_vars

-----------------------------------------------------------------------------
(* OptHeader: the nine octets of an OPT record's header in front of its    *)
(* rdlen, and OptRecord made from the record parsed back.                  *)

\* inner[k] of the source is h[k + 1] here.
OptHeader_default == <<0, 0, 41, 0, 0, 0, 0, 0, 0>>

udp_payload_size(h) == (h[4] * 256 + h[5]) % 65536

set_udp_payload_size(h, value) ==
    [h EXCEPT ![4] = (value \div 256) % 256, ![5] = value % 256]

\* The octet rcode() hands to OptRcode::from_parts as the extended part.
ext_rcode(h) == h[6]

\* set_rcode with an rcode whose ext() is ext.
set_rcode(h, ext) == [h EXCEPT ![6] = ext]

version(h) == h[7]

\* set_version that writes to the octet of the extended rcode.
set_version_at_rcode(h, value) == [h EXCEPT ![6] = value]

set_version(h, value) == [h EXCEPT ![7] = value]

\* inner[7] & 0x80 != 0
dnssec_ok(h) == (h[8] \div 128) % 2 = 1

\* inner[7] |= 0x80, or inner[7] &= 0x7F
set_dnssec_ok(h, value) ==
    IF value
    THEN [h EXCEPT ![8] = IF (h[8] \div 128) % 2 = 1 THEN h[8] ELSE h[8] + 128]
    ELSE [h EXCEPT ![8] = h[8] % 128]

OptHeader_compose(h, target) == target \o h

\* u16::compose: big-endian.
u16_compose(value, target) == target \o <<(value \div 256) % 256, value % 256>>

\* ParsedRecord::parse and into_record::<Opt>: the root name, then type,
\* class, ttl and rdlen, big-endian, with rdlen octets of data to follow;
\* a record of another type is not an OPT record. The 32 bits of the ttl
\* are kept as two halves of 16 bits, ttl_hi and ttl_lo.
ParsedRecord_parse(buf) ==
    IF Len(buf) < 11 \/ buf[1] # 0
    THEN [ok |-> FALSE, rtype |-> 0, class |-> 0, ttl_hi |-> 0, ttl_lo |-> 0]
    ELSE LET rdlen == buf[10] * 256 + buf[11]
         IN  [ok |-> Len(buf) - 11 >= rdlen /\ buf[2] * 256 + buf[3] = 41,
              rtype |-> buf[2] * 256 + buf[3],
              class |-> buf[4] * 256 + buf[5],
              ttl_hi |-> buf[6] * 256 + buf[7],
              ttl_lo |-> buf[8] * 256 + buf[9]]

\* OptRecord::from_record: ttl >> 24 and ttl >> 16 are the octets of the
\* upper half, and the casts keep the low octets.
OptRecord_from_record(record) ==
    [udp_payload_size |-> record.class,
     ext_rcode |-> (record.ttl_hi \div 256) % 256,
     version |-> record.ttl_hi % 256,
     flags |-> record.ttl_lo % 65536]

\* flags & 0x8000 != 0
OptRecord_dnssec_ok(r) == (r.flags \div 32768) % 2 = 1

\* The values handed to the setters.
PayloadSizes == {0, 255, 256, 4660, 65535}
ExtRcodes == {0, 1, 255}
Versions == {0, 189, 255}

\* The values of payload size, extended rcode, version and DO (1 or 0).
Values(size, ext, vers, do) == <<size, ext, vers, IF do THEN 1 ELSE 0>>

\* OptHeader::default(). `self` is the header, `out` the values the caller
\* has set last.
OptHeaderDefault ==
    /\ pc = "start"
    /\ pc' = "ready"
    /\ self' = OptHeader_default
    /\ out' = Values(0, 0, 0, FALSE)
    /\ res' = "Ok"
    /\ last' = Call("default", 0, 0, <<>>, <<>>, "unit", 0)
    /\ UNCHANGED <<input, rets, heap>>

\* A setter was called with value a for the k-th of the values.
Set(op, k, a, h) ==
    /\ self' = h
    /\ out' = [out EXCEPT ![k] = a]
    /\ last' = Call(op, a, k, <<>>, self, "unit", 0)
    /\ UNCHANGED <<pc, input, res, rets, heap>>

SetUdpPayloadSize ==
    /\ pc = "ready"
    /\ \E value \in PayloadSizes :
          Set("set_udp_payload_size", 1, value,
              set_udp_payload_size(self, value))

SetRcode ==
    /\ pc = "ready"
    /\ \E ext \in ExtRcodes : Set("set_rcode", 2, ext, set_rcode(self, ext))

SetVersion ==
    /\ pc = "ready"
    /\ \E value \in Versions :
          Set("set_version", 3, value, set_version(self, value))

SetDnssecOk ==
    /\ pc = "ready"
    /\ \E value \in BOOLEAN :
          Set("set_dnssec_ok", 4, IF value THEN 1 ELSE 0,
              set_dnssec_ok(self, value))

\* The header and an rdlen of 0 are composed, parsed as a record and made
\* an OptRecord: `input` is what was composed, `rets` the values the record
\* reports.
ComposeAndParse ==
    /\ pc = "ready"
    /\ LET buf == u16_compose(0, OptHeader_compose(self, <<>>))
           parsed == ParsedRecord_parse(buf)
           record == OptRecord_from_record(parsed)
       IN  /\ input' = buf
           /\ res' = IF parsed.ok THEN "Ok" ELSE "ParseError"
           /\ rets' = IF parsed.ok
                      THEN <<Values(record.udp_payload_size, record.ext_rcode,
                                    record.version,
                                    OptRecord_dnssec_ok(record))>>
                      ELSE <<>>
    /\ pc' = "done"
    /\ last' = Call("from_record", 0, 0, <<>>, self, res', 0)
    /\ UNCHANGED <<self, out, heap>>

NextOptHeader ==
    \/ OptHeaderDefault
    \/ SetUdpPayloadSize
    \/ SetRcode
    \/ SetVersion
    \/ SetDnssecOk
    \/ ComposeAndParse

SpecOptHeader == Init /\ [][NextOptHeader]_vars

\* The names in existence: the receiver and what the last call returned.
Names ==
    (IF pc \in {"ready", "panicked", "done"} THEN {self} ELSE {})
        \cup {rets[k] : k \in 1..Len(rets)}

-----------------------------------------------------------------------------
(* What the claims are stated against: the wire format, read by offset.    *)

\* b[pos..] (0-based) is a concatenation of whole labels, each a length
\* octet in 1..63 followed by exactly that many payload octets.
RECURSIVE WholeLabelsFrom(_, _)
WholeLabelsFrom(b, pos) ==
    IF pos = Len(b) THEN TRUE
    ELSE /\ b[pos + 1] >= 1
         /\ b[pos + 1] <= 63
         /\ pos + 1 + b[pos + 1] <= Len(b)
         /\ WholeLabelsFrom(b, pos + 1 + b[pos + 1])

\* The type invariant of RelativeDname.
ValidName(b) == Len(b) <= 254 /\ WholeLabelsFrom(b, 0)

\* The error of the first label from pos on that is not a whole normal
\* non-root label ("none" when there is no such label).
RECURSIVE FirstBadLabel(_, _)
FirstBadLabel(b, pos) ==
    IF pos = Len(b) THEN "none"
    ELSE LET head == b[pos + 1] IN
         IF head = 0 THEN "AbsoluteName"
         ELSE IF head >= 192 THEN "CompressedName"
         ELSE IF head >= 64 THEN "BadLabel"
         ELSE IF Len(b) - (pos + 1) < head THEN "ShortData"
         ELSE FirstBadLabel(b, pos + 1 + head)

\* The methods that take octet offsets.
SlicingOps ==
    {"range", "range_from", "range_to", "split_at", "split_off", "split_to",
     "truncate"}

\* The offset arguments of the last call.
LastOffsets == IF last.op = "range" THEN {last.a, last.b} ELSE {last.a}

-----------------------------------------------------------------------------
(* The claims.                                                             *)

\* C1: from_octets(b) returns Ok exactly when b is at most 254 octets long
\* and is a concatenation of whole labels with length octets in 1..63; on Ok
\* the name's octets are b unchanged.
C1_FromOctetsAcceptsExactlyValid ==
    last.op = "from_octets" =>
        /\ (res = "Ok") <=> (Len(input) <= 254 /\ WholeLabelsFrom(input, 0))
        /\ res = "Ok" => (pc = "ready" /\ self = input)

\* A well-formed buffer of several labels, 254 octets long, was accepted.
C1_Witness ==
    /\ last.op = "from_octets"
    /\ res = "Ok"
    /\ Len(input) = 254
    /\ self = input

\* C2: after any sequence of non-panicking slicing, splitting, truncating,
\* split_first, parent and strip_suffix calls on names from from_octets,
\* empty() or wildcard(), every name in existence (the receiver and each
\* returned name) is a sequence of whole non-root labels of at most 254
\* octets.
C2_SlicingKeepsNamesValid ==
    pc # "panicked" => \A n \in Names : ValidName(n)

\* A split of a name that itself came out of an earlier call, both halves
\* non-empty.
C2_Witness ==
    /\ pc = "ready"
    /\ last.op = "split_off"
    /\ last.before # input
    /\ Len(self) > 0
    /\ Len(rets) = 1
    /\ Len(rets[1]) > 0

\* C3: for every buffer from_octets accepts, compose_len() is the buffer's
\* length and compose() appends exactly the buffer's octets to what the
\* output buffer held.
C3_ComposeRoundTrip ==
    /\ last.op = "compose_len" => last.n = Len(input)
    /\ last.op = "compose" => out = last.base \o input

\* A non-empty name was composed onto a non-empty output buffer.
C3_Witness ==
    /\ last.op = "compose"
    /\ Len(last.base) > 0
    /\ Len(input) > 2
    /\ res = "Ok"

\* C4: the length check comes first: every buffer longer than 254 octets
\* fails with LongName whatever it contains, and a well-formed label
\* sequence of exactly 254 octets is accepted.
C4_LengthCheckedUpFront ==
    last.op = "from_octets" =>
        /\ Len(input) > 254 => res = "LongName"
        /\ (Len(input) = 254 /\ WholeLabelsFrom(input, 0)) => res = "Ok"

\* A buffer of 255 octets whose last label is a root label failed with
\* LongName.
C4_Witness ==
    /\ last.op = "from_octets"
    /\ Len(input) = 255
    /\ input[253] = 0
    /\ res = "LongName"

\* C5: a buffer of at most 254 octets that from_octets rejects fails with the
\* error of its first label that is not a whole normal non-root label:
\* AbsoluteName for length octet 0, CompressedName for 192..255, BadLabel for
\* 64..191, ShortData when the payload is cut short; it is an error returned,
\* never a panic.
C5_ErrorOfFirstBadLabel ==
    (last.op = "from_octets" /\ Len(input) <= 254 /\ res # "Ok") =>
        /\ res = FirstBadLabel(input, 0)
        /\ res \in {"AbsoluteName", "CompressedName", "BadLabel", "ShortData"}
        /\ pc = "failed"

\* A whole label followed by a pointer octet failed with CompressedName.
C5_Witness ==
    /\ last.op = "from_octets"
    /\ res = "CompressedName"
    /\ Len(input) >= 3
    /\ input[1] = 1
    /\ input[3] = 192

\* C6: is_label_start(i) is true exactly when i is 0 or the end of some
\* label of the name (the total length included); it is false inside a
\* label and past the end, and it does not panic.
C6_IsLabelStartExact ==
    last.op = "is_label_start" =>
        /\ last.val \in {"true", "false"}
        /\ (last.val = "true") <=> (last.a \in LabelStartSet(last.before))
        /\ last.a > Len(last.before) => last.val = "false"

\* The start of the second of at least two labels was found to be one.
C6_Witness ==
    /\ last.op = "is_label_start"
    /\ last.val = "true"
    /\ last.a > 0
    /\ last.a < Len(last.before)

\* C7: range, range_from, range_to, split_at, split_off, split_to and
\* truncate panic whenever an offset argument is not a label start of the
\* receiver (which includes every offset past the end).
C7_BadOffsetPanics ==
    (last.op \in SlicingOps /\ ~(LastOffsets \subseteq LabelStartSet(last.before)))
        => pc = "panicked"

\* split_to was called with an offset inside a label and panicked.
C7_Witness ==
    /\ last.op = "split_to"
    /\ last.a < Len(last.before)
    /\ last.a \notin LabelStartSet(last.before)
    /\ pc = "panicked"

\* C8: when split_off, split_to or truncate panics on its offset, the
\* receiver's octets are what they were before the call and nothing was
\* returned.
C8_PanicLeavesReceiverUntouched ==
    (last.op \in {"split_off", "split_to", "truncate"} /\ pc = "panicked")
        => (self = last.before /\ rets = <<>>)

\* split_off panicked on an offset inside a label of a non-empty name.
C8_Witness ==
    /\ last.op = "split_off"
    /\ pc = "panicked"
    /\ last.a > 0
    /\ last.a < Len(last.before)
    /\ self = last.before

\* C9: for label starts s <= e of a name with octets o, range(s, e) returns
\* o[s..e], range_from(s) returns o[s..], range_to(e) returns o[..e], the
\* receiver is unchanged, and range_to(i) followed by range_from(i)
\* concatenates back to o.
C9_RangeReturnsSubSequence ==
    LET o == last.before
        inStarts == LastOffsets \subseteq LabelStartSet(o)
    IN  /\ (last.op = "range" /\ inStarts /\ last.a <= last.b) =>
              /\ pc = "ready"
              /\ self = o
              /\ rets = <<SubSeq(o, last.a + 1, last.b)>>
        /\ (last.op = "range_from" /\ inStarts) =>
              /\ pc = "ready"
              /\ self = o
              /\ rets = <<SubSeq(o, last.a + 1, Len(o))>>
        /\ (last.op = "range_to" /\ inStarts) =>
              /\ pc = "ready"
              /\ self = o
              /\ rets = <<SubSeq(o, 1, last.a)>>
              /\ rets[1] \o range_from(self, last.a).ret[1] = o

\* range cut a middle piece out of a name: neither end is an end of the name.
C9_Witness ==
    /\ last.op = "range"
    /\ pc = "ready"
    /\ last.a > 0
    /\ last.a < last.b
    /\ last.b < Len(last.before)
    /\ Len(rets) = 1

\* C10: at a label start mid of a name with octets o, split_off(mid) leaves
\* o[..mid] and returns o[mid..], split_to(mid) leaves o[mid..] and returns
\* o[..mid], split_at(mid) returns (o[..mid], o[mid..]), and truncate(mid)
\* leaves o[..mid]: no octet is lost or duplicated.
C10_SplitPartitions ==
    LET o == last.before
        mid == last.a
        left == SubSeq(o, 1, mid)
        right == SubSeq(o, mid + 1, Len(o))
    IN  (last.op \in {"split_at", "split_off", "split_to", "truncate"}
            /\ mid \in LabelStartSet(o)) =>
           /\ left \o right = o
           /\ last.op = "split_off" =>
                 (pc = "ready" /\ self = left /\ rets = <<right>>)
           /\ last.op = "split_to" =>
                 (pc = "ready" /\ self = right /\ rets = <<left>>)
           /\ last.op = "split_at" =>
                 (pc = "moved" /\ rets = <<left, right>>)
           /\ last.op = "truncate" =>
                 (pc = "ready" /\ self = left /\ rets = <<>>)

\* split_to split a name strictly inside it.
C10_Witness ==
    /\ last.op = "split_to"
    /\ pc = "ready"
    /\ last.a > 0
    /\ last.a < Len(last.before)
    /\ Len(self) > 0

\* The number of labels of the whole-label buffer b from offset pos on.
RECURSIVE NumLabelsFrom(_, _)
NumLabelsFrom(b, pos) ==
    IF pos >= Len(b) THEN 0 ELSE 1 + NumLabelsFrom(b, pos + 1 + b[pos + 1])

NumLabels(b) == NumLabelsFrom(b, 0)

\* The octets of a name with every ASCII upper-case letter folded.
Fold(b) == [i \in 1..Len(b) |-> to_ascii_lowercase(b[i])]

\* C11: split_first on a non-empty name returns Some of a name that is
\* exactly the first label and leaves the receiver with the remaining labels:
\* one label fewer, and the returned octets followed by the receiver's are
\* the original octets. On the empty name it returns None and the receiver
\* stays empty.
C11_SplitFirstTakesFirstLabel ==
    LET o == last.before IN
    last.op = "split_first" =>
        /\ pc = "ready"
        /\ o = <<>> => (last.val = "None" /\ rets = <<>> /\ self = <<>>)
        /\ o # <<>> =>
              /\ last.val = "Some"
              /\ Len(rets) = 1
              /\ rets[1] = SubSeq(o, 1, o[1] + 1)
              /\ NumLabels(rets[1]) = 1
              /\ rets[1] \o self = o
              /\ NumLabels(self) + 1 = NumLabels(o)

\* split_first took the first of at least three labels.
C11_Witness ==
    /\ last.op = "split_first"
    /\ last.val = "Some"
    /\ Len(rets) = 1
    /\ NumLabels(self) >= 2

\* C12: from a valid name of n labels, repeated parent() or split_first()
\* calls find a label exactly n times, each removing the leading label, and
\* so reach the empty name; every call on the empty name returns false (None)
\* and leaves it empty.
C12_ParentReachesEmpty ==
    /\ [](last.op \in {"parent", "split_first"} =>
            /\ pc = "ready"
            /\ (last.val \in {"true", "Some"}) <=> (last.before # <<>>)
            /\ (last.val \in {"false", "None"}) <=> (last.before = <<>>)
            /\ last.before # <<>> =>
                  self = SubSeq(last.before, last.before[1] + 2,
                                Len(last.before))
            /\ last.before = <<>> => self = <<>>
            /\ last.n + NumLabels(self) = NumLabels(input))
    /\ (pc = "ready") ~>
          (/\ self = <<>>
           /\ last.val \in {"false", "None"}
           /\ last.n = NumLabels(input))

\* parent() returned false after it had found four or more labels.
C12_Witness ==
    /\ last.op = "parent"
    /\ last.val = "false"
    /\ last.n >= 4
    /\ last.n = NumLabels(input)
    /\ self = <<>>

\* C13: strip_suffix(base) returns Ok exactly when base's labels are the
\* last labels of the receiver, compared without regard to ASCII case; on Ok
\* the receiver keeps its first len(self) - len(base) octets; otherwise it
\* returns StripSuffixError and the receiver is unchanged.
C13_StripSuffixExact ==
    LET o == last.before
        base == last.base
        starts == LabelStartSet(o)
        isSuffix == \E s \in starts :
                       Fold(SubSeq(o, s + 1, Len(o))) = Fold(base)
    IN  last.op = "strip_suffix" =>
           /\ pc = "ready"
           /\ rets = <<>>
           /\ (last.val = "Ok") <=> isSuffix
           /\ last.val = "Ok" => self = SubSeq(o, 1, Len(o) - Len(base))
           /\ last.val # "Ok" => (last.val = "StripSuffixError" /\ self = o)
           /\ base = <<>> => (last.val = "Ok" /\ self = o)
           /\ base = o => (last.val = "Ok" /\ self = <<>>)

\* A suffix written in another case was stripped and a label was left.
C13_Witness ==
    /\ last.op = "strip_suffix"
    /\ last.val = "Ok"
    /\ last.base # <<>>
    /\ last.base # SubSeq(last.before, Len(self) + 1, Len(last.before))
    /\ Len(self) > 0

\* C14: for every valid relative name R, also one reached by slicing,
\* chain_root() and into_absolute() do not panic and yield an absolute name
\* of len(R) + 1 octets, namely R's octets followed by the root label, which
\* Dname::from_octets accepts.
C14_AbsoluteIsNamePlusRoot ==
    LET o == last.before IN
    last.op \in {"chain_root", "into_absolute"} =>
        /\ pc = "moved"
        /\ last.n = Len(o) + 1
        /\ Len(out) = Len(o) + 1
        /\ out = o \o <<0>>
        /\ Dname_from_octets(o \o <<0>>) = "Ok"

\* chain_root made an absolute name of 255 octets from a name of 254.
C14_Witness ==
    /\ last.op = "chain_root"
    /\ pc = "moved"
    /\ Len(last.before) = 254
    /\ Len(out) = 255

\* C15: chain(other) returns Ok exactly when the encoded lengths of the
\* receiver and of other add up to at most 255; the chain then holds both
\* names and composes to the one followed by the other. Otherwise it returns
\* LongChainError and neither name is handed back.
C15_ChainChecksCombinedLength ==
    LET o == last.before
        other == last.base
    IN  last.op = "chain" =>
           /\ pc = "moved"
           /\ (last.val = "Ok") <=> (Len(o) + Len(other) <= 255)
           /\ last.val = "Ok" =>
                 (rets = <<o, other>> /\ out = o \o other
                     /\ last.n = Len(o) + Len(other))
           /\ last.val # "Ok" =>
                 (last.val = "LongChainError" /\ rets = <<>> /\ out = <<>>)

\* A chain of 256 octets was refused.
C15_Witness ==
    /\ last.op = "chain"
    /\ last.val = "LongChainError"
    /\ Len(last.before) + Len(last.base) = 256
    /\ rets = <<>>


\* The labels (payloads) of the whole-label buffer b from offset pos on.
RECURSIVE LabelsFrom(_, _)
LabelsFrom(b, pos) ==
    IF pos >= Len(b) THEN <<>>
    ELSE <<SubSeq(b, pos + 2, pos + 1 + b[pos + 1])>>
             \o LabelsFrom(b, pos + 1 + b[pos + 1])

Labels(b) == LabelsFrom(b, 0)

\* As many labels, and every pair of the same length and of the same octets
\* after case folding.
SameLabels(la, lb) ==
    /\ Len(la) = Len(lb)
    /\ \A k \in 1..Len(la) :
          Len(la[k]) = Len(lb[k]) /\ Fold(la[k]) = Fold(lb[k])

\* C16: a name equals another name, flat or a chain, exactly when both have
\* as many labels and every pair of corresponding labels has the same length
\* and the same octets after ASCII case folding; where the chain is split
\* makes no difference, and the wildcard label is a label like any other.
C16_EqualityIsLabelwiseCaseFolded ==
    LET o == last.before
        other == last.base
    IN  last.op = "eq" =>
           /\ (last.val = "true") <=> SameLabels(Labels(o), Labels(other))
           /\ (last.val = "true") <=> (Fold(o) = Fold(other))
           /\ (o = wildcard /\ last.val = "true") => other = <<1, 42>>

\* A name equalled a chain of two non-empty parts written in another case.
C16_Witness ==
    /\ last.op = "eq"
    /\ last.val = "true"
    /\ last.n = 2
    /\ rets[1] # <<>>
    /\ rets[2] # <<>>
    /\ last.base # last.before

\* C17: two names that compare equal feed the same input to the hasher.
C17_EqualNamesHashAlike ==
    (last.op = "hash" /\ eq(last.before, rets)) => out = last.base

\* Two equal names written in different case were hashed.
C17_Witness ==
    /\ last.op = "hash"
    /\ eq(last.before, rets)
    /\ rets[1] # last.before
    /\ out = last.base
    /\ Len(out) >= 4

\* Label x sorts before label y when the case-folded octets are compared one
\* by one from the front and a proper prefix sorts first.
LexLess(x, y) ==
    LET fx == Fold(x)
        fy == Fold(y)
    IN  \E i \in 1..(Len(fx) + 1) :
           /\ i <= Len(fy)
           /\ SubSeq(fx, 1, i - 1) = SubSeq(fy, 1, i - 1)
           /\ (i = Len(fx) + 1 \/ fx[i] < fy[i])

\* Label x sorts before label y when the shorter label sorts first and
\* labels of one length are compared by their case-folded octets.
LengthFirstLess(x, y) ==
    \/ Len(x) < Len(y)
    \/ Len(x) = Len(y) /\ LexLess(x, y)

\* The number of labels, counted from the root end, in which the label
\* sequences la and lb agree after case folding.
RootSideEqual(la, lb) ==
    LET n == IF Len(la) < Len(lb) THEN Len(la) ELSE Len(lb)
        same(j) == Fold(la[Len(la) + 1 - j]) = Fold(lb[Len(lb) + 1 - j])
    IN  CHOOSE k \in 0..n :
           /\ \A j \in 1..k : same(j)
           /\ (k = n \/ ~same(k + 1))

\* The order of la and lb when the first pair of labels that differs,
\* counted from the root end, decides by Less, and a name that is all of the
\* other's root-side labels sorts first.
OrderBy(la, lb, Less(_, _)) ==
    LET k == RootSideEqual(la, lb) IN
    IF k = Len(la) /\ k = Len(lb) THEN "Equal"
    ELSE IF k = Len(la) THEN "Less"
    ELSE IF k = Len(lb) THEN "Greater"
    ELSE IF Less(la[Len(la) - k], lb[Len(lb) - k]) THEN "Less"
    ELSE "Greater"

\* C18 as stated: cmp and partial_cmp compare the labels from the one
\* closest to the root, each pair by length first and then by case-folded
\* octet value, and the name with fewer labels sorts first when all labels
\* of the shorter name compare equal.
C18_LabelsByLengthFirst ==
    last.op \in {"cmp", "partial_cmp"} =>
        last.val = OrderBy(Labels(last.before), Labels(last.base),
                           LengthFirstLess)

\* C18, amended: cmp and partial_cmp compare the labels from the one closest
\* to the root; each pair compares by case-folded octet value, octet by
\* octet from the front, a label that is a proper prefix of the other
\* sorting first; the name with fewer labels sorts first when all labels of
\* the shorter name compare equal.
C18_LabelsByFoldedOctets ==
    last.op \in {"cmp", "partial_cmp"} =>
        last.val = OrderBy(Labels(last.before), Labels(last.base), LexLess)

\* cmp put a name before another whose deciding label is shorter.
C18_Witness ==
    /\ last.op = "cmp"
    /\ last.val = "Less"
    /\ OrderBy(Labels(last.before), Labels(last.base), LengthFirstLess)
          = "Greater"

\* The order of two indices.
IndexOrder(i, j) ==
    IF i < j THEN "Less" ELSE IF i = j THEN "Equal" ELSE "Greater"

\* C19: on the names of the example of RFC 4034, section 6.1, cmp and
\* partial_cmp return Less, Equal or Greater as the indices of the two names
\* in the list compare; cmp and partial_cmp agree on every pair of names;
\* and when two names differ in a label, the first such pair counted from
\* the root decides, by its case-folded octets with a proper prefix first.
C19_Rfc4034Order ==
    LET o == last.before
        other == last.base
        la == Labels(o)
        lb == Labels(other)
        k == RootSideEqual(la, lb)
    IN  last.op \in {"cmp", "partial_cmp"} =>
           /\ \A i, j \in 1..Len(Rfc4034Names) :
                 (o = Rfc4034Names[i] /\ other = Rfc4034Names[j])
                     => last.val = IndexOrder(i, j)
           /\ last.op = "cmp" => last.val = partial_cmp(o, rets)
           /\ (last.op = "partial_cmp" /\ last.n = 1)
                 => last.val = cmp(o, rets[1])
           /\ (k < Len(la) /\ k < Len(lb)) =>
                 last.val = IF LexLess(la[Len(la) - k], lb[Len(lb) - k])
                            THEN "Less" ELSE "Greater"

\* partial_cmp put yljkjljk.a.example before Z.a.example.
C19_Witness ==
    /\ last.op = "partial_cmp"
    /\ last.before = Rfc4034Names[3]
    /\ last.base = Rfc4034Names[4]
    /\ last.val = "Less"

\* C20: starts_with(base) is true exactly when base's labels are the first
\* labels of the receiver, ends_with(base) exactly when they are its last
\* labels, both without regard to ASCII case: the empty name is a prefix and
\* a suffix of every name, every name is one of itself, and a name of more
\* labels is never one of a name of fewer.
C20_PrefixAndSuffixOfLabels ==
    LET o == last.before
        base == last.base
        starts == LabelStartSet(o)
        isPrefix == /\ Len(base) \in starts
                    /\ Fold(SubSeq(o, 1, Len(base))) = Fold(base)
        isSuffix == /\ Len(base) <= Len(o)
                    /\ (Len(o) - Len(base)) \in starts
                    /\ Fold(SubSeq(o, Len(o) - Len(base) + 1, Len(o)))
                          = Fold(base)
    IN  /\ last.op = "starts_with" => ((last.val = "true") <=> isPrefix)
        /\ last.op = "ends_with" => ((last.val = "true") <=> isSuffix)
        /\ last.op \in {"starts_with", "ends_with"} =>
              /\ base = <<>> => last.val = "true"
              /\ base = o => last.val = "true"
              /\ NumLabels(base) > NumLabels(o) => last.val = "false"

\* A name started with a shorter name written in another case that it does
\* not end with.
C20_Witness ==
    /\ last.op = "starts_with"
    /\ last.val = "true"
    /\ last.base # <<>>
    /\ Len(last.base) < Len(last.before)
    /\ last.base # SubSeq(last.before, 1, Len(last.base))
    /\ ~ends_with(last.before, last.base)

\* C21: ndots() returns 0 for the empty name and label_count() - 1 for
\* every other name; the subtraction never goes below zero.
C21_NdotsNeverUnderflows ==
    last.op = "ndots" =>
        /\ pc = "done"
        /\ last.val = "unit"
        /\ last.before = <<>> => last.n = 0
        /\ last.before # <<>> => last.n + 1 = NumLabels(last.before)

\* ndots() returned 0 for a name that slicing had emptied.
C21_Witness ==
    /\ last.op = "ndots"
    /\ last.before = <<>>
    /\ input # <<>>
    /\ last.n = 0
    /\ pc = "done"

\* C22: over one shared buffer, every live handle reads the octets its
\* holder was given, and no step on one handle (an in-place slicing method,
\* a clone, a drop, or into_builder() followed by an append) changes what
\* is read through any other live handle.
C22_ClonesUnaffected ==
    /\ [](\A k \in Live(heap) :
             Read(heap, heap.handles[k]) = heap.handles[k].octets)
    /\ [][\A k \in Live(heap) :
             (k # last'.b /\ k \in Live(heap')) =>
                 Read(heap', heap'.handles[k]) = Read(heap, heap.handles[k])
         ]_vars

\* A builder made from a truncated name appended to a copy while a clone
\* still read octets past the truncated name's end.
C22_Witness ==
    /\ last.op = "into_builder"
    /\ last.val = "copied"
    /\ out = last.before \o AppendLabel
    /\ \E k \in Live(heap) :
          /\ heap.handles[k].e > heap.handles[last.b].e
          /\ Read(heap, heap.handles[k]) = input

\* What Dname::from_octets makes of b from offset pos on, read by offset:
\* "Ok" when the label at pos is the root and the last octet, else the
\* first defect met.
RECURSIVE DnameVerdict(_, _)
DnameVerdict(b, pos) ==
    IF pos = Len(b) THEN "RelativeName"
    ELSE LET head == b[pos + 1] IN
         IF head = 0 THEN (IF pos + 1 = Len(b) THEN "Ok" ELSE "TrailingData")
         ELSE IF head >= 192 THEN "CompressedName"
         ELSE IF head >= 64 THEN "BadLabel"
         ELSE IF Len(b) - (pos + 1) < head THEN "ShortBuf"
         ELSE DnameVerdict(b, pos + 1 + head)

\* C23: Dname::from_octets(b) returns Ok exactly when b is at most 255
\* octets long and is whole labels with length octets in 1..63 followed by
\* one root label as its last octet; a root label before the end, a missing
\* final root label and a label longer than the octets left are errors.
C23_DnameNeedsOneFinalRoot ==
    LET b == input
        n == Len(b)
    IN  last.op = "Dname_from_octets" =>
           /\ (res = "Ok") <=>
                 /\ n >= 1
                 /\ n <= 255
                 /\ b[n] = 0
                 /\ WholeLabelsFrom(SubSeq(b, 1, n - 1), 0)
           /\ res = "Ok" => (pc = "done" /\ out = b)
           /\ res # "Ok" => (pc = "failed" /\ out = <<>>)
           /\ n <= 255 => res = DnameVerdict(b, 0)
           /\ n > 255 => res = "LongName"

\* An absolute name of 255 octets was accepted.
C23_Witness ==
    /\ last.op = "Dname_from_octets"
    /\ res = "Ok"
    /\ Len(input) = 255
    /\ out = input

\* The offsets of OPT record data b at which an option starts, from pos on.
RECURSIVE OptionStartsFrom(_, _)
OptionStartsFrom(b, pos) ==
    IF pos + 4 > Len(b) THEN {pos}
    ELSE {pos} \cup OptionStartsFrom(b, pos + 4 + b[pos + 3] * 256 + b[pos + 4])

\* The data of the options of OPT record data b with the given code, from
\* the option at pos on, in their order.
RECURSIVE OptionsWithCode(_, _, _)
OptionsWithCode(b, pos, code) ==
    IF pos + 4 > Len(b) THEN <<>>
    ELSE LET len == b[pos + 3] * 256 + b[pos + 4]
             rest == OptionsWithCode(b, pos + 4 + len, code)
         IN  IF b[pos + 1] * 256 + b[pos + 2] = code
             THEN <<SubSeq(b, pos + 5, pos + 4 + len)>> \o rest
             ELSE rest

\* C24: on OPT record data accepted by Opt::from_octets, the iterator for
\* one option type never panics and never returns an error, its parser
\* always stands at the start of an option, and what it has returned when
\* it ends is the data of exactly the options of that type, in order.
C24_IterSkipsOtherOptions ==
    LET expected == OptionsWithCode(input, 0, Dau_CODE)
    IN  last.op = "OptIter_next" =>
           /\ pc # "panicked"
           /\ last.val # "Err"
           /\ last.b \in OptionStartsFrom(input, 0)
           /\ Len(rets) <= Len(expected)
           /\ rets = SubSeq(expected, 1, Len(rets))
           /\ pc = "done" => rets = expected

\* C25: under any interleaving of next and next_back on one iterator over a
\* valid name, neither panics; the labels next has returned, the labels
\* still in the iterator and the labels next_back has returned in reverse
\* order are always the labels of the name, so no label is returned twice
\* or left out; and once None was returned nothing is left and every
\* further call returns None.
C25_BothEndsYieldEachLabelOnce ==
    /\ last.op \in {"iter", "next", "next_back"} =>
          /\ pc # "panicked"
          /\ rets \o iter(self) \o iter(out) = iter(input)
          /\ Len(rets) + NumLabels(out) <= NumLabels(input)
          /\ last.n > 0 =>
                /\ self = <<>>
                /\ rets \o iter(out) = iter(input)
    /\ [][(last.op \in {"next", "next_back"} /\ last.val = "None")
             => (last'.val = "None" /\ rets' = rets /\ out' = out)]_vars

\* A name of three labels was exhausted with calls from both ends, and a
\* call after that returned None.
C25_Witness ==
    /\ last.op \in {"next", "next_back"}
    /\ last.n = MaxNone
    /\ NumLabels(input) >= 3
    /\ Len(rets) >= 1
    /\ NumLabels(out) >= 2
    /\ self = <<>>

\* C26: range(start, end) with both offsets label starts of the name,
\* whichever of the two is the larger, does not panic and returns a valid
\* relative name, leaving the receiver as it was.
C26_RangePanicsOnlyOffLabelStarts ==
    LET o == last.before
    IN  (last.op = "range" /\ {last.a, last.b} \subseteq LabelStartSet(o)) =>
           /\ pc = "ready"
           /\ self = o
           /\ Len(rets) = 1
           /\ from_octets(rets[1]) = "Ok"

\* C27: strip_suffix does not panic on any pair of valid relative names:
\* whenever ends_with(base) holds, also when base is spelled in another
\* case, base is no longer than the receiver, the index len(self) -
\* len(base) is a label start of the receiver and the call returns Ok;
\* when it does not hold the call returns StripSuffixError.
C27_StripSuffixNeverPanics ==
    LET o == last.before
        base == last.base
    IN  last.op = "strip_suffix" =>
           /\ pc # "panicked"
           /\ last.val # "panic"
           /\ ends_with(o, base) =>
                 /\ compose_len(base) <= Len(o)
                 /\ check_index(o, Len(o) - compose_len(base))
                 /\ ~split_off(o, Len(o) - compose_len(base)).panic
                 /\ last.val = "Ok"
           /\ ~ends_with(o, base) => last.val = "StripSuffixError"

\* A name of three octets was stripped off itself spelled in another case.
C27_Witness ==
    /\ last.op = "strip_suffix"
    /\ last.val = "Ok"
    /\ Len(last.base) = Len(last.before)
    /\ last.base # last.before
    /\ Len(last.before) >= 3
    /\ self = <<>>

\* C28 as stated: a chain of two relative names that was constructed has at
\* most 254 octets, so that the root label can be chained onto it.
C28_RelativeChainsAtMost254 ==
    (last.op = "chain" /\ last.val = "Ok" /\ last.base # Dname_root) =>
        /\ last.n <= 254
        /\ Chain_new(out, Dname_root).ok

\* C28, amended: a RelativeDname has at most 254 octets and chain_root on it
\* does not fail; a chain of two relative names is constructed whenever
\* their lengths add up to at most 255, so it has at most 255 octets, and
\* the root label can be chained onto it exactly when it has at most 254.
C28_RelativeNameFitsRootChainMayNot ==
    LET o == last.before
        other == last.base
    IN  last.op = "chain" =>
           /\ Len(o) <= 254
           /\ ~chain_root(o).panic
           /\ Chain_compose_len(chain_root(o).chain) <= 255
           /\ other # Dname_root =>
                 /\ Len(other) <= 254
                 /\ Len(o) + Len(other) <= 255 => last.val = "Ok"
                 /\ last.val = "Ok" =>
                       /\ last.n = Len(out)
                       /\ last.n <= 255
                       /\ Chain_new(out, Dname_root).ok <=> last.n <= 254

\* Two relative names were chained to 255 octets, onto which the root label
\* cannot be chained.
C28_Witness ==
    /\ last.op = "chain"
    /\ last.val = "Ok"
    /\ last.base # Dname_root
    /\ last.n = 255
    /\ Len(rets) = 2
    /\ ~Chain_new(out, Dname_root).ok

\* Ordering::reverse.
Reverse(ord) ==
    CASE ord = "Less" -> "Greater"
      [] ord = "Greater" -> "Less"
      [] OTHER -> "Equal"

\* C29: the ordering of names is total and agrees with equality: for names
\* a and b, cmp(a, b) is Equal exactly when a == b, cmp(b, a) is the reverse
\* of cmp(a, b), partial_cmp(a, b) is Some(cmp(a, b)), and for every name c,
\* a <= b and b <= c give a <= c, strictly if either is strict.
C29_CmpIsTotalOrder ==
    LET a == last.before
        b == last.base
    IN  /\ last.op = "cmp" =>
              /\ last.val \in {"Less", "Equal", "Greater"}
              /\ (last.val = "Equal") <=> eq(a, <<b>>)
              /\ (last.val = "Equal") <=> eq(b, <<a>>)
              /\ cmp(b, a) = Reverse(last.val)
              /\ partial_cmp(a, <<b>>) = last.val
              /\ \A c \in OrdNames :
                    LET bc == cmp(b, c)
                        ac == cmp(a, c)
                    IN  /\ (last.val # "Greater" /\ bc # "Greater")
                              => ac # "Greater"
                        /\ (last.val = "Less" /\ bc # "Greater") => ac = "Less"
                        /\ (last.val # "Greater" /\ bc = "Less") => ac = "Less"
                        /\ (last.val = "Equal" /\ bc = "Equal") => ac = "Equal"
        /\ last.op = "partial_cmp" => last.val = cmp(a, b)
        /\ last.op = "eq" => (last.val = "true" <=> cmp(a, b) = "Equal")

\* Two names of two labels that differ in case only compared as Equal.
C29_Witness ==
    /\ last.op = "cmp"
    /\ last.val = "Equal"
    /\ last.before # last.base
    /\ NumLabels(last.before) >= 2

\* The octets of header h that differ from those of header g.
Changed(g, h) == {k \in 1..9 : h[k] # g[k]}

\* C30: after any setter calls on OptHeader::default() each getter returns
\* the value set last for its field (the default's where none was set), a
\* setter changes octets of its own field only, set_dnssec_ok the top bit
\* of octet 7 only, octets 0 to 2 stay the root name and type 41, and the
\* record parsed from the composed header reports the same four values.
C30_SettersKeepToTheirField ==
    LET before == last.before
    IN  last.op \in {"default", "set_udp_payload_size", "set_rcode",
                     "set_version", "set_dnssec_ok", "from_record"} =>
           /\ Len(self) = 9
           /\ SubSeq(self, 1, 3) = <<0, 0, 41>>
           /\ udp_payload_size(self) = out[1]
           /\ ext_rcode(self) = out[2]
           /\ version(self) = out[3]
           /\ dnssec_ok(self) <=> out[4] = 1
           /\ last.op = "set_udp_payload_size" =>
                 Changed(before, self) \subseteq {4, 5}
           /\ last.op = "set_rcode" => Changed(before, self) \subseteq {6}
           /\ last.op = "set_version" => Changed(before, self) \subseteq {7}
           /\ last.op = "set_dnssec_ok" =>
                 /\ Changed(before, self) \subseteq {8}
                 /\ self[8] % 128 = before[8] % 128
           /\ last.op = "from_record" =>
                 /\ res = "Ok"
                 /\ self = before
                 /\ input = self \o <<0, 0>>
                 /\ rets = <<out>>

\* The header of the test opt_record_header was composed and parsed back.
C30_Witness ==
    /\ last.op = "from_record"
    /\ res = "Ok"
    /\ out = <<4660, 1, 189, 1>>
    /\ rets = <<out>>
    /\ self = <<0, 0, 41, 18, 52, 1, 189, 128, 0>>

=============================================================================
